---- MODULE Spec2Model ----
(***************************************************************************)
(* Model of SpeechFingerprinting.py: extractFBEFingerprinting (band-energy *)
(* fingerprint) and extractLandmarksFingerprinting (landmark fingerprint). *)
(*                                                                         *)
(* A call is a straight-line pipeline; each stage of the source is one     *)
(* action and pc names the next stage.  A waveform is represented by its   *)
(* length, real-valued matrices that come out of the FFT (the energy       *)
(* matrix, the magnitude spectrogram) by matrices over a small set of      *)
(* integers, frequencies by integers in Hz and Bark values by integers in  *)
(* 1/Scale Bark.  Indices are 0-based as in the source.                    *)
(***************************************************************************)
EXTENDS Integers, Sequences, FiniteSets, TLC

VARIABLES cfg, pc, err, n_samples, n_frames, bin, hz_freq, fbank, energy,
          spectogram, fp, result

vars == <<cfg, pc, err, n_samples, n_frames, bin, hz_freq, fbank, energy,
          spectogram, fp, result>>

\* ------------------------------------------------------------------ bounds
\* Longest waveform, in samples.
MaxSamples == 2
\* Largest n_bands.
MaxBands == 4
\* Largest tile height / width of the landmark grid.
MaxTile == 2

\* Fixed-point resolution of Bark values and of sinh: 1/Scale.
Scale == 10 * 10 * 10

\* ------------------------------------------------------- program constants
\* bark(f) = 6 * arcsinh(f / 600)
BarkFactor == 6
BarkKnee == 600

\* Values an entry of the log band energies (clipped at 1e-5, so positive)
\* and of the magnitude spectrogram takes.
EnergyVals == {1, 2}
MagnitudeVals == {0, 1}

Min(a, b) == IF a <= b THEN a ELSE b

\* ------------------------------------------------------------- arithmetic
\* sinh(y / Scale) * Scale for y >= 0, by its Taylor series
\*   y + y^3/3! + y^5/5! + ...   (term n+2 = term n * y^2 / ((n+1)(n+2))).
RECURSIVE SinhSum(_, _, _)
SinhSum(term, y, n) ==
    IF term = 0 THEN 0
    ELSE term + SinhSum(((((term * y) \div Scale) * y) \div Scale)
                            \div ((n + 1) * (n + 2)), y, n + 2)

Sinh(y) == SinhSum(y, y, 1)

\* 600. * np.sinh(bark / 6.), bark in 1/Scale Bark, result in Hz.
HzOfBark(b) == (BarkKnee * Sinh(b \div BarkFactor)) \div Scale

\* 6. * np.arcsinh(f / 600.): arcsinh is the inverse of sinh; the largest
\* b in lo..hi-1 (1/Scale Bark) with HzOfBark(b) <= f.
RECURSIVE BarkSearch(_, _, _)
BarkSearch(lo, hi, f) ==
    IF hi - lo <= 1 THEN lo
    ELSE LET mid == (lo + hi) \div 2
         IN  IF HzOfBark(mid) <= f THEN BarkSearch(mid, hi, f)
                                   ELSE BarkSearch(lo, mid, f)

BarkOfHz(f) == BarkSearch(0, 30 * Scale, f)

\* np.linspace(a, b, num)[i]
Linspace(a, b, num, i) ==
    IF num = 1 THEN a ELSE a + ((i * (b - a)) \div (num - 1))

\* A python index into a sequence of length n: negative indices count from
\* the end; anything else out of 0..n-1 is an IndexError (InRange false).
InRange(k, n) == -n <= k /\ k < n
\* (mutation: a negative index is clamped to 0)
PyIndexClamped(k, n) == IF k < 0 THEN 0 ELSE k
PyIndex(k, n) == IF k < 0 THEN k + n ELSE k

\* ----------------------------------------------------------- filterbank
\* A filterbank weight: 0, or 10^(e20/20)  (1 = 10^0).
Zero == [pos |-> FALSE, e20 |-> 0]
Pow10(e20) == [pos |-> TRUE, e20 |-> e20]

\* The weight of bin k at delta = center - k (lines 56-66).  The
\* thresholds -1.3, -0.5, 0.5, 2.5 are compared in tenths.
\* (mutation: the two skirts are exchanged)
WeightSkirtsSwapped(delta, k) ==
    LET d == 10 * delta
    IN  IF d < -13 THEN Zero
        ELSE IF -13 <= d /\ d <= -5 THEN Pow10(1 - 2 * k)
        ELSE IF -5 <= d /\ d <= 5 THEN Pow10(0)
        ELSE IF 5 <= d /\ d <= 25 THEN Pow10(50 * k + 25)
        ELSE Zero
Weight(delta, k) ==
    LET d == 10 * delta
    IN  IF d < -13 THEN Zero
        ELSE IF -13 <= d /\ d <= -5 THEN Pow10(50 * k + 25)   \* 10 ** (2.5 * (k + 0.5))
        ELSE IF -5 <= d /\ d <= 5 THEN Pow10(0)               \* 1
        ELSE IF 5 <= d /\ d <= 25 THEN Pow10(1 - 2 * k)       \* 10 ** (-0.1 * (k - 0.5))
        ELSE Zero

\* Number of columns of fbank: int(np.floor(fft_points // 2 + 1)).
NumBins(fft_points) == (fft_points \div 2) + 1

\* 6. * np.arcsinh(low_freq / 600.)
LowBark(c) == BarkOfHz(c.low_freq)

\* min(6. * np.arcsinh(high_freq / 600.), sr / 2): the Bark value of
\* high_freq against sr / 2, both as plain numbers (here in 1/Scale).
HighBark(c) == Min(BarkOfHz(c.high_freq), (c.sr * Scale) \div 2)

\* hz_freq = 600. * np.sinh(np.linspace(low, high, n_bands + 2) / 6.)
HzFreq(c) ==
    [i \in 0..(c.n_bands + 1) |->
        HzOfBark(Linspace(LowBark(c), HighBark(c), c.n_bands + 2, i))]

\* int(bin[i]) with bin = (fft_points // 2 + 1) * hz_freq / sr; the values
\* are not negative, so int() is the floor.
BinOf(c, hz) == (NumBins(c.fft_points) * hz) \div c.sr

\* The bins band m (1..n_bands) writes: range(low, high).
BandBins(b, m) == b[m - 1] .. (b[m + 1] - 1)

\* Some fbank[m - 1, k] = ... of the loop is out of the matrix.
FilterbankIndexError(b, n_bands, width) ==
    \E m \in 1..n_bands : \E k \in BandBins(b, m) : ~InRange(k, width)

\* fbank after the loop of lines 51-66 (every cell is written at most once
\* per band; a negative k addresses the column counted from the end).
Filterbank(b, n_bands, width) ==
    [r \in 0..(n_bands - 1) |->
        [col \in 0..(width - 1) |->
            IF \E k \in BandBins(b, r + 1) : PyIndex(k, width) = col
            THEN LET k == CHOOSE k \in BandBins(b, r + 1) : PyIndex(k, width) = col
                 IN  Weight(b[r + 1] - k, k)
            ELSE Zero]]

\* -------------------------------------------------------- bit derivation
\* range(1, len(filter_banks)) and range(len(filter_banks[0]) - 1)
BitRows(nf) == 1..(nf - 1)
\* (mutation: the loop runs over every band)
BitColumnsAll(nb) == 0..(nb - 1)
BitColumns(nb) == 0..(nb - 2)

\* Line 78: the bit of frame i, band j.  energy[i-1][j-1] is a python
\* index: j - 1 = -1 addresses the last band.
\* (mutation: >= in place of >)
BitAtOrEqual(E, i, j, nb) ==
    IF (E[i][j] - E[i][j + 1]) - (E[i - 1][j] - E[i - 1][PyIndex(j - 1, nb)]) >= 0
    THEN 1 ELSE 0
BitAt(E, i, j, nb) ==
    IF (E[i][j] - E[i][j + 1]) - (E[i - 1][j] - E[i - 1][PyIndex(j - 1, nb)]) > 0
    THEN 1 ELSE 0

\* Some read of energy or write of fp in the loop is out of range.
BitsIndexError(nf, nb) ==
    \E i \in BitRows(nf) : \E j \in BitColumns(nb) :
        \/ ~InRange(j, nb) \/ ~InRange(j + 1, nb) \/ ~InRange(j - 1, nb)
        \/ ~InRange(i, nf) \/ ~InRange(j, nb - 1)

\* fp after lines 75-81: np.zeros((len(frames), n_bands - 1)) with the
\* cells of the loop overwritten.
Bits(E, nf, nb) ==
    [i \in 0..(nf - 1) |->
        [j \in 0..(nb - 2) |->
            IF i \in BitRows(nf) /\ j \in BitColumns(nb) THEN BitAt(E, i, j, nb) ELSE 0]]

\* Line 71: filter_banks -= np.mean(filter_banks, axis=0) + 1e-8.  The
\* result is kept times the number of frames, which keeps it an integer
\* and keeps the sign of every difference; the shift by 1e-8 is the same
\* in every entry and is left out.
RECURSIVE ColumnSum(_, _, _)
ColumnSum(X, j, n) == IF n = 0 THEN 0 ELSE X[n - 1][j] + ColumnSum(X, j, n - 1)

MeanNormalized(X, nf, nb) ==
    [i \in 0..(nf - 1) |-> [j \in 0..(nb - 1) |-> nf * X[i][j] - ColumnSum(X, j, nf)]]

\* ------------------------------------------------------------- framing
\* normalization(samples), preEmphasis(samples, sr): the waveform keeps its
\* length.
normalization(n) == n
preEmphasis(n) == n

\* hop_length = (1 - overlapping) * window_length.  overlapping is an
\* integer here (0, the default, or 1), which keeps hop_length an integer.
HopLength(c) == (1 - c.overlapping) * c.window_length

\* librosa.util.frame rejects a waveform shorter than one frame and a hop
\* below 1.
\* (mutation: the length of the waveform is not checked)
FrameErrorHopOnly(n, frame_length, hop_length) == hop_length < 1
FrameError(n, frame_length, hop_length) == n < frame_length \/ hop_length < 1

\* Number of frames librosa.util.frame cuts (the last partial one dropped).
NumFrames(n, frame_length, hop_length) == 1 + ((n - frame_length) \div hop_length)

\* plt.imshow(fp.T, ...): what the display leaves in fp.
\* (mutation: the display transposes the matrix in place)
imshowTransposed(m) ==
    IF m = <<>> THEN m
    ELSE [j \in DOMAIN m[0] |-> [i \in DOMAIN m |-> m[i][j]]]
imshow(m) == m

\* ------------------------------------------------------------- inputs
FBEConfigs(Srs, Ffts, Bands, Lows, Highs, Lens, Wins, Ovs, Norms, Disps) ==
    [func : {"FBE"}, samples : Lens, sr : Srs, normalize : Norms,
     fft_points : Ffts, n_bands : Bands, low_freq : Lows, high_freq : Highs,
     overlapping : Ovs, window_length : Wins, display : Disps]

NoError == [type |-> "none", at |-> "none"]

InitOver(Configs) ==
    /\ cfg \in Configs
    /\ pc = "start"
    /\ err = NoError
    /\ n_samples = cfg.samples
    /\ n_frames = 0
    /\ bin = <<>>
    /\ hz_freq = <<>>
    /\ fbank = <<>>
    /\ energy = <<>>
    /\ spectogram = <<>>
    /\ fp = <<>>
    /\ result = <<>>

\* An exception leaves the call: no matrix is returned.  at is the stage
\* that raised.
Fail(e) == pc' = "failed" /\ err' = [type |-> e, at |-> pc]

\* ------------------------------------------- extractFBEFingerprinting
\* Lines 28-32.
Preprocess ==
    /\ cfg.func = "FBE" /\ pc = "start"
    /\ n_samples' = preEmphasis(IF cfg.normalize THEN normalization(n_samples)
                                                 ELSE n_samples)
    /\ pc' = "frame"
    /\ UNCHANGED <<cfg, err, n_frames, bin, hz_freq, fbank, energy, spectogram,
                   fp, result>>

\* Lines 35-39: the frames, whose power spectrum is cut to fft_points // 2 + 1
\* bins.
Frame ==
    /\ cfg.func = "FBE" /\ pc = "frame"
    /\ IF FrameError(n_samples, cfg.window_length, HopLength(cfg))
       THEN Fail("ParameterError") /\ UNCHANGED n_frames
       ELSE /\ n_frames' = NumFrames(n_samples, cfg.window_length, HopLength(cfg))
            /\ pc' = "bark" /\ UNCHANGED err
    /\ UNCHANGED <<cfg, n_samples, bin, hz_freq, fbank, energy, spectogram, fp,
                   result>>

\* Lines 42-47.
BarkBins ==
    /\ cfg.func = "FBE" /\ pc = "bark"
    /\ hz_freq' = HzFreq(cfg)
    /\ bin' = [i \in DOMAIN hz_freq' |-> BinOf(cfg, hz_freq'[i])]
    /\ pc' = "fbank"
    /\ UNCHANGED <<cfg, err, n_samples, n_frames, fbank, energy, spectogram, fp,
                   result>>

\* Lines 49-66.
BuildFilterbank ==
    /\ cfg.func = "FBE" /\ pc = "fbank"
    /\ IF FilterbankIndexError(bin, cfg.n_bands, NumBins(cfg.fft_points))
       THEN Fail("IndexError") /\ UNCHANGED fbank
       ELSE /\ fbank' = Filterbank(bin, cfg.n_bands, NumBins(cfg.fft_points))
            /\ pc' = "project" /\ UNCHANGED err
    /\ UNCHANGED <<cfg, n_samples, n_frames, bin, hz_freq, energy, spectogram,
                   fp, result>>

\* Lines 68-72: the log band energies, one row per frame and one column
\* per band, with values that are whatever the waveform gives, and their
\* mean normalization.
Project ==
    /\ cfg.func = "FBE" /\ pc = "project"
    /\ \E filter_banks \in [0..(n_frames - 1) -> [0..(cfg.n_bands - 1) -> EnergyVals]] :
         energy' = MeanNormalized(filter_banks, n_frames, cfg.n_bands)
    /\ pc' = "bits"
    /\ UNCHANGED <<cfg, err, n_samples, n_frames, bin, hz_freq, fbank,
                   spectogram, fp, result>>

\* Lines 75-81.  np.zeros refuses a negative dimension.
DeriveBits ==
    /\ cfg.func = "FBE" /\ pc = "bits"
    /\ IF cfg.n_bands - 1 < 0
       THEN Fail("ValueError") /\ UNCHANGED fp
       ELSE IF BitsIndexError(n_frames, cfg.n_bands)
       THEN Fail("IndexError") /\ UNCHANGED fp
       ELSE /\ fp' = Bits(energy, n_frames, cfg.n_bands)
            /\ pc' = IF cfg.display THEN "display" ELSE "return"
            /\ UNCHANGED err
    /\ UNCHANGED <<cfg, n_samples, n_frames, bin, hz_freq, fbank, energy,
                   spectogram, result>>

\* Lines 83-89.
Display ==
    /\ cfg.func = "FBE" /\ pc = "display"
    /\ fp' = imshow(fp)
    /\ pc' = "return"
    /\ UNCHANGED <<cfg, err, n_samples, n_frames, bin, hz_freq, fbank, energy,
                   spectogram, result>>

\* Line 91.
Return ==
    /\ cfg.func = "FBE" /\ pc = "return"
    /\ result' = fp
    /\ pc' = "done"
    /\ UNCHANGED <<cfg, err, n_samples, n_frames, bin, hz_freq, fbank, energy,
                   spectogram, fp>>

\* ------------------------------------- extractLandmarksFingerprinting
LandConfigs(Ffts, Heights, Widths, Lens, Wins, Ovs, Norms, Disps) ==
    [func : {"Land"}, samples : Lens, normalize : Norms, height : Heights,
     width : Widths, fft_points : Ffts, overlapping : Ovs,
     window_length : Wins, display : Disps]

\* librosa.stft frames the waveform with the same hop and needs a window
\* no longer than the FFT.
StftError(n_fft, win_length, hop_length) == hop_length < 1 \/ win_length > n_fft

\* Shape of the spectrogram of a centred STFT: 1 + n_fft // 2 rows and
\* 1 + n // hop columns.
StftRows(n_fft) == 1 + (n_fft \div 2)
StftCols(n, hop_length) == 1 + (n \div hop_length)

\* range(0, n, step): empty for a negative step (step = 0 is a ValueError).
Range(n, step) ==
    IF step > 0 THEN {i \in 0..(n - 1) : i % step = 0} ELSE {}

\* Shape of spectogram[i:i+height, j:j+width]: slices stop at the edge.
SubRows(F, i, height) == Min(i + height, F) - i
SubCols(T, j, width) == Min(j + width, T) - j

\* sub_matrix flattened in row-major order, as np.argmax reads it.
Flat(S, i, j, rows, cols) ==
    [n \in 0..(rows * cols - 1) |-> S[i + (n \div cols)][j + (n % cols)]]

\* np.argmax: the index of the first maximum of flat[0..n-1]; best is the
\* index of the first maximum of flat[0..k-1].
RECURSIVE ArgmaxScan(_, _, _, _)
ArgmaxScan(flat, n, k, best) ==
    IF k >= n THEN best
    ELSE ArgmaxScan(flat, n, k + 1, IF flat[k] > flat[best] THEN k ELSE best)

\* (mutation: the last maximum, not the first)
RECURSIVE ArgmaxScanLast(_, _, _, _)
ArgmaxScanLast(flat, n, k, best) ==
    IF k >= n THEN best
    ELSE ArgmaxScanLast(flat, n, k + 1, IF flat[k] >= flat[best] THEN k ELSE best)

ArgmaxLast(flat, n) == ArgmaxScanLast(flat, n, 1, 0)
Argmax(flat, n) == ArgmaxScan(flat, n, 1, 0)

\* Lines 123-126: the coordinate (x, y) marked for the tile at (i, j).
Landmark(S, F, T, i, j, height, width) ==
    LET rows == SubRows(F, i, height)
        cols == SubCols(T, j, width)
        pos  == Argmax(Flat(S, i, j, rows, cols), rows * cols)
    IN  <<i + (pos \div cols), j + (pos % cols)>>     \* np.unravel_index

\* fp after lines 118-127.
Landmarks(S, F, T, height, width) ==
    LET marked == {Landmark(S, F, T, i, j, height, width) :
                      i \in Range(F, height), j \in Range(T, width)}
    IN  [x \in 0..(F - 1) |-> [y \in 0..(T - 1) |->
            IF <<x, y>> \in marked THEN 1 ELSE 0]]

\* Lines 109-113.
LPreprocess ==
    /\ cfg.func = "Land" /\ pc = "start"
    /\ n_samples' = preEmphasis(IF cfg.normalize THEN normalization(n_samples)
                                                 ELSE n_samples)
    /\ pc' = "stft"
    /\ UNCHANGED <<cfg, err, n_frames, bin, hz_freq, fbank, energy, spectogram,
                   fp, result>>

\* Lines 114-117: the magnitude spectrogram; its values are whatever the
\* waveform gives.  The call of line 115 is taken to be a well-formed call
\* of librosa.stft (as written it passes sr in the place of n_fft and a
\* keyword window_type).
Stft ==
    /\ cfg.func = "Land" /\ pc = "stft"
    /\ IF StftError(cfg.fft_points, cfg.window_length, HopLength(cfg))
       THEN Fail("ParameterError") /\ UNCHANGED <<spectogram, n_frames>>
       ELSE /\ n_frames' = StftCols(n_samples, HopLength(cfg))
            /\ spectogram' \in [0..(StftRows(cfg.fft_points) - 1) ->
                                  [0..(n_frames' - 1) -> MagnitudeVals]]
            /\ pc' = "landmarks" /\ UNCHANGED err
    /\ UNCHANGED <<cfg, n_samples, bin, hz_freq, fbank, energy, fp, result>>

\* Lines 118-127.  range() refuses a step of 0: the outer one always, the
\* inner one when the outer loop runs.
GetLandmarks ==
    /\ cfg.func = "Land" /\ pc = "landmarks"
    /\ IF cfg.height = 0 \/ (cfg.height > 0 /\ cfg.width = 0)
       THEN Fail("ValueError") /\ UNCHANGED fp
       ELSE /\ fp' = Landmarks(spectogram, StftRows(cfg.fft_points), n_frames,
                               cfg.height, cfg.width)
            /\ pc' = IF cfg.display THEN "display" ELSE "return"
            /\ UNCHANGED err
    /\ UNCHANGED <<cfg, n_samples, n_frames, bin, hz_freq, fbank, energy,
                   spectogram, result>>

\* Lines 129-135.
LDisplay ==
    /\ cfg.func = "Land" /\ pc = "display"
    /\ fp' = imshow(fp)
    /\ pc' = "return"
    /\ UNCHANGED <<cfg, err, n_samples, n_frames, bin, hz_freq, fbank, energy,
                   spectogram, result>>

\* Line 137.
LReturn ==
    /\ cfg.func = "Land" /\ pc = "return"
    /\ result' = fp
    /\ pc' = "done"
    /\ UNCHANGED <<cfg, err, n_samples, n_frames, bin, hz_freq, fbank, energy,
                   spectogram, fp>>

Next ==
    \/ Preprocess \/ Frame \/ BarkBins \/ BuildFilterbank \/ Project
    \/ DeriveBits \/ Display \/ Return
    \/ LPreprocess \/ Stft \/ GetLandmarks \/ LDisplay \/ LReturn

\* ------------------------------------------------------ specifications
\* One band-energy call and one landmark call that run to the end.
OneFBE == FBEConfigs({8000}, {4}, {2}, {300}, {4000}, {2}, {1}, {0}, {FALSE}, BOOLEAN)
OneLand == LandConfigs({2}, {1}, {1}, {1}, {1}, {0}, {FALSE}, BOOLEAN)

\* Framing and bit derivation: every waveform length, window, overlap and
\* band count, one filterbank layout.
BitsConfigs ==
    FBEConfigs({8000}, {4}, 0..MaxBands, {300}, {4000}, 0..MaxSamples,
               -1..2, {0, 1}, BOOLEAN, BOOLEAN) \cup OneLand
InitBits == InitOver(BitsConfigs)
SpecBits == InitBits /\ [][Next]_vars

\* Filterbank construction: every sample rate, FFT size, band count and
\* band edge, one frame.
BankConfigs ==
    FBEConfigs({8000, 16000}, {16, 64}, 0..MaxBands, {0, 300, 4000},
               {300, 4000, 6000, 10000}, {2}, {1, 2}, {0}, {FALSE}, BOOLEAN)
        \cup OneLand
InitBank == InitOver(BankConfigs)
SpecBank == InitBank /\ [][Next]_vars

\* Landmark picking: every spectrogram shape and tile size.
LandmarkConfigs ==
    LandConfigs({1, 2, 4}, -1..MaxTile, -1..MaxTile, 1..MaxSamples, -1..2,
                {0, 1}, {FALSE}, BOOLEAN) \cup OneFBE
InitLand == InitOver(LandmarkConfigs)
SpecLand == InitLand /\ [][Next]_vars

\* ============================================================== claims
IsFBE == cfg.func = "FBE"
IsLand == cfg.func = "Land"
Returned == pc = "done"

\* The frames of a waveform of n samples: the start positions s = 0, hop,
\* 2 hop, ... whose window s .. s + L - 1 lies within the waveform.
FrameStarts(n, L, hop) == {s \in 0..(n - L) : s % hop = 0}

\* C1: a returned band-energy fingerprint has one row per frame and
\* n_bands - 1 columns, every entry is 0 or 1, and the bit-derivation loop
\* never indexes outside its matrices.
C1_ShapeAndBits ==
    IsFBE =>
      /\ ~(pc = "failed" /\ err.at = "bits" /\ err.type = "IndexError")
      /\ Returned =>
           /\ DOMAIN result =
                0..(Cardinality(FrameStarts(cfg.samples, cfg.window_length,
                       (1 - cfg.overlapping) * cfg.window_length)) - 1)
           /\ \A i \in DOMAIN result :
                /\ DOMAIN result[i] = 0..(cfg.n_bands - 2)
                /\ \A j \in DOMAIN result[i] : result[i][j] \in {0, 1}

C1_Witness ==
    /\ IsFBE /\ Returned /\ cfg.n_bands = MaxBands
    /\ DOMAIN result = 0..1
    /\ result[1][cfg.n_bands - 2] = 1 /\ result[1][0] = 0

\* C6: for i >= 1 and 1 <= j < n_bands - 2, bit[i][j] is 1 exactly when
\* (E[i][j] - E[i][j+1]) - (E[i-1][j] - E[i-1][j-1]) > 0, and 0 otherwise.
C6_InnerBitRule ==
    (IsFBE /\ Returned) =>
      \A i \in 1..(n_frames - 1) : \A j \in 1..(cfg.n_bands - 3) :
        LET d == (energy[i][j] - energy[i][j + 1])
                   - (energy[i - 1][j] - energy[i - 1][j - 1])
        IN  /\ (d > 0) => result[i][j] = 1
            /\ (d <= 0) => result[i][j] = 0

\* The difference is exactly 0 at (1, 1), with neither term of it 0.
C6_Witness ==
    /\ IsFBE /\ Returned /\ n_frames >= 2 /\ cfg.n_bands >= 4
    /\ energy[1][1] - energy[1][2] = energy[0][1] - energy[0][0]
    /\ energy[1][1] # energy[1][2]
    /\ result[1][1] = 0

\* C7: every bit of frame 0 and every bit of band 0 is 0.
C7_BoundaryBitsZero ==
    (IsFBE /\ Returned) =>
      \A i \in DOMAIN result : \A j \in DOMAIN result[i] :
        (i = 0 \/ j = 0) => result[i][j] = 0

\* C8: at band 0 the neighbour E[i-1][-1] is the last band of the previous
\* frame: bit[i][0] = 1 exactly when
\* (E[i][0] - E[i][1]) - (E[i-1][0] - E[i-1][n_bands-1]) > 0.
C8_WraparoundAtBandZero ==
    (IsFBE /\ Returned /\ cfg.n_bands >= 2) =>
      \A i \in 1..(n_frames - 1) :
        LET d == (energy[i][0] - energy[i][1])
                   - (energy[i - 1][0] - energy[i - 1][cfg.n_bands - 1])
        IN  result[i][0] = 1 <=> d > 0

\* The last band of the previous frame decides the bit: with a neighbour
\* of 0, or with band 0 as its own neighbour, the bit would be 0.
C8_Witness ==
    /\ IsFBE /\ Returned /\ n_frames >= 2 /\ cfg.n_bands >= 3
    /\ (energy[1][0] - energy[1][1]) - energy[0][0] <= 0
    /\ energy[1][0] - energy[1][1] <= 0
    /\ result[1][0] = 1

\* The configurations the error taxonomy rejects: hop <= 0,
\* window_length <= 0, height <= 0, width <= 0, n_bands < 1,
\* high_freq <= low_freq, fft_points < window_length.
InvalidConfiguration(c) ==
    \/ (1 - c.overlapping) * c.window_length <= 0
    \/ c.window_length <= 0
    \/ c.fft_points < c.window_length
    \/ c.func = "FBE" /\ (c.n_bands < 1 \/ c.high_freq <= c.low_freq)
    \/ c.func = "Land" /\ (c.height <= 0 \/ c.width <= 0)

\* C3: no invalid configuration yields a returned fingerprint.
C3_InvalidConfigurationFails ==
    InvalidConfiguration(cfg) => ~Returned

\* C4 as claimed: a waveform shorter than window_length raises no error and
\* gives a fingerprint with zero rows.
C4_ShortWaveformReturnsEmpty ==
    (IsFBE /\ ~InvalidConfiguration(cfg) /\ cfg.samples < cfg.window_length) =>
      /\ pc # "failed"
      /\ Returned => result = <<>>

\* C4, amended: a waveform shorter than window_length never gets past
\* framing: the call fails there and returns no matrix.
C4_ShortWaveformFails ==
    (IsFBE /\ cfg.samples < cfg.window_length) =>
      /\ pc \in {"start", "frame", "failed"}
      /\ pc = "failed" => err = [type |-> "ParameterError", at |-> "frame"]
      /\ result = <<>> /\ fp = <<>>

C4_Witness ==
    /\ IsFBE /\ ~InvalidConfiguration(cfg) /\ cfg.samples < cfg.window_length
    /\ cfg.samples > 0
    /\ pc = "failed" /\ err.at = "frame"

\* C5: the display step changes no entry of the matrix and nothing computed
\* before it, and the matrix returned is the one computed, whether or not
\* the display step ran.
C5_DisplayKeepsMatrix ==
    [][/\ pc = "display" =>
            /\ fp' = fp
            /\ UNCHANGED <<cfg, n_samples, n_frames, bin, hz_freq, fbank,
                           energy, spectogram>>
       /\ pc = "return" => result' = fp]_vars

\* A fingerprint with set bits was displayed and returned.
C5_Witness ==
    /\ Returned /\ cfg.display
    /\ \E i \in DOMAIN result : \E j \in DOMAIN result[i] : result[i][j] = 1
    /\ \E i \in DOMAIN result : \E j \in DOMAIN result[i] : result[i][j] = 0

\* The filterbank has been built.
FilterbankBuilt == IsFBE /\ pc \in {"project", "bits", "display", "return", "done"}

\* The weight the five-region rule gives bin k of a band centred at center;
\* delta = center - k is an integer, so the regions are delta <= -2,
\* delta = -1, delta = 0, delta in {1, 2} and delta >= 3.
RegionWeight(center, k) ==
    LET delta == center - k
    IN  CASE delta <= -2          -> Zero
          [] delta = -1           -> Pow10(50 * k + 25)
          [] delta = 0            -> Pow10(0)
          [] delta \in {1, 2}     -> Pow10(1 - 2 * k)
          [] OTHER                -> Zero

\* C9: in a built filterbank every bin k in [low, high) of band m has the
\* weight of its region, every other bin has weight 0, and no weight is
\* negative.
C9_FilterbankWeights ==
    FilterbankBuilt =>
      /\ DOMAIN fbank = 0..(cfg.n_bands - 1)
      /\ \A m \in 1..cfg.n_bands :
           /\ DOMAIN fbank[m - 1] = 0..(cfg.fft_points \div 2)
           /\ \A k \in DOMAIN fbank[m - 1] :
                /\ fbank[m - 1][k] =
                     IF bin[m - 1] <= k /\ k < bin[m + 1]
                     THEN RegionWeight(bin[m], k) ELSE Zero
                /\ fbank[m - 1][k].pos \/ fbank[m - 1][k] = Zero

\* One band whose bins lie in all five regions.
C9_Witness ==
    /\ FilterbankBuilt
    /\ \E m \in 1..cfg.n_bands :
         LET deltas == {bin[m] - k : k \in bin[m - 1]..(bin[m + 1] - 1)}
         IN  /\ {-2, -1, 0, 1, 2, 3} \subseteq deltas
             /\ \E k \in DOMAIN fbank[m - 1] : fbank[m - 1][k].e20 > 0
             /\ \E k \in DOMAIN fbank[m - 1] : fbank[m - 1][k].e20 < 0

\* The band edges have been computed.
EdgesComputed == IsFBE /\ (hz_freq # <<>> \/ pc = "fbank")

\* C10: high_freq is clipped to sr / 2: the band edges for
\* high_freq > sr / 2 are those for high_freq = sr / 2, no edge is above
\* sr / 2 Hz, and no bin written to the filterbank is outside
\* 0..fft_points / 2.
C10_ClippedToNyquist ==
    EdgesComputed =>
      /\ \A i \in DOMAIN hz_freq : hz_freq[i] <= cfg.sr \div 2
      /\ cfg.high_freq > cfg.sr \div 2 =>
           hz_freq = HzFreq([cfg EXCEPT !.high_freq = cfg.sr \div 2])
      /\ ~(pc = "failed" /\ err.at = "fbank")

\* The tile of the height x width grid that holds (x, y): the coordinates
\* with the same row block and column block, cut at the edge of the matrix.
SameTile(x, y, u, v) ==
    /\ x \div cfg.height = u \div cfg.height
    /\ y \div cfg.width = v \div cfg.width

\* (u, v) comes before (x, y) in row-major order.
Before(u, v, x, y) == u < x \/ (u = x /\ v < y)

====
